---- MODULE Spec2Model ----
(***************************************************************************)
(* Checkout workflow of the shopping backend (order-service POST /orders)  *)
(* over the shared MySQL/InnoDB store.                                     *)
(*                                                                         *)
(* Store semantics assumed (MySQL defaults, nothing in the sources changes *)
(* them): InnoDB, REPEATABLE READ.  A plain SELECT inside a transaction    *)
(* reads the snapshot taken at the transaction's first SELECT; UPDATE      *)
(* reads the latest committed row, takes an exclusive row lock and keeps   *)
(* it until commit/rollback; INSERT into a table with a FOREIGN KEY takes  *)
(* a shared lock on the parent row; AUTO_INCREMENT values are not given    *)
(* back by a rollback.  Money is counted in cents.                         *)
(***************************************************************************)
EXTENDS Integers, Sequences, FiniteSets, TLC

\* ------------------------------------------------------------------ bounds
MaxStock == 2      \* largest initial stock of a product
MaxQty == 2        \* largest quantity of an initial cart line
FracBits == 10     \* binary fraction bits kept by the model of a JS number

Procs == {1, 2}            \* concurrently running POST /orders handlers
Users == {1, 2}            \* rows of table users
CartIds == {1, 2}          \* rows of table carts
ProductIds == {1, 2}       \* rows of table products
\* req.body of the requests tried, <<user_id, cart_id>>: 0 is a missing field,
\* 3 an id with no row; user 1 owns cart 1, user 2 owns cart 2
Bodies == {<<0, 1>>, <<1, 0>>, <<3, 1>>, <<1, 3>>, <<1, 1>>, <<2, 2>>, <<2, 1>>}

CartOwner == <<1, 2>>                 \* carts.user_id of the initial carts
ProductName == <<"productA", "productB">>
CurrentPrice == <<1099, 1500>>        \* products.price now (cents)
PriceAtAddition == <<999, 1500>>      \* price when the line was added (cents)

connectionLimit == 10

StockChoices == {0, 1, MaxStock}      \* initial products.stock_quantity
QtyChoices == {1, MaxQty}             \* initial cart_items.quantity

SvcProcs == {1, 2}         \* concurrently running handlers of the other routes

VARIABLES
  carts,        \* committed table carts: id -> [user_id, status]
  cart_items,   \* committed table cart_items: sequence of rows, in id order
  products,     \* committed table products: id -> [name, price, stock_quantity]
  orders,       \* committed table orders: set of rows
  order_items,  \* committed table order_items: set of rows
  insertId,     \* AUTO_INCREMENT counter of table orders
  trx,          \* the open transaction of each handler's connection
  connection,   \* per handler: pool connections acquired / released
  pc,           \* per handler: the await it is suspended at
  req,          \* per handler: req.body
  local,        \* per handler: carts, cartItems, totalAmount, orderId, loop index
  res,          \* per handler: the response sent (status 0: none yet)
  mutated,      \* history: the handler's request changed the committed store
  second,       \* history: the request began after a checkout of its cart id
                \* had succeeded and ended
  stock0,       \* history: the initial stock of each product
  svc,          \* per cart/product/order-status request handler: its state
  dbPool,       \* the order service's dbPool: 0 is null, else the pool's number
  pools         \* how many pools mysql.createPool has created in the process

store == <<carts, cart_items, products, orders, order_items>>
vars == <<carts, cart_items, products, orders, order_items, insertId, trx,
          connection, pc, req, local, res, mutated, second, stock0, svc,
          dbPool, pools>>

\* ------------------------------------------------------- pure helpers
RECURSIVE Pow2(_)
Pow2(n) == IF n = 0 THEN 1 ELSE 2 * Pow2(n - 1)

\* a / b rounded to the nearest integer, halves away from zero (a, b >= 0)
RoundDiv(a, b) == (2 * a + b) \div (2 * b)

\* parseInt in place of parseFloat: the digits after the point are dropped
parseInt(cents) == (cents \div 100) * Pow2(FracBits)

\* parseFloat of a DECIMAL(…,2) string holding `cents`: the nearest binary
\* fraction, here with FracBits fraction bits, in units of 2^-FracBits
parseFloat(cents) == RoundDiv(cents * Pow2(FracBits), 100)

\* the JS number of the integer n
Num(n) == n * Pow2(FracBits)
\* a number stored into an INT column: MySQL rounds it to the nearest integer
\* (a fractional part is not an error, also in strict mode)
toInt(x) == RoundDiv(x, Pow2(FracBits))

\* Number.prototype.toFixed(2): the number rounded to cents
toFixed2(x) == RoundDiv(x * 100, Pow2(FracBits))

\* a JS number stored into a DECIMAL(10,2) column: rounded to cents
toDecimal2(x) == RoundDiv(x * 100, Pow2(FracBits))

RECURSIVE SeqSum(_)
SeqSum(s) == IF s = <<>> THEN 0 ELSE Head(s) + SeqSum(Tail(s))

RECURSIVE SelectRows(_, _)
\* the rows of cart_items of cart c joined with products, in table order
SelectRows(view, c) ==
  IF view.cart_items = <<>> THEN <<>>
  ELSE LET ci == Head(view.cart_items)
           rest == SelectRows([view EXCEPT !.cart_items = Tail(@)], c)
       IN IF ci.cart_id = c /\ ci.product_id \in DOMAIN view.products
          THEN <<[product_id |-> ci.product_id,
                  quantity |-> ci.quantity,
                  price_at_addition |-> ci.price_at_addition,
                  product_name |-> view.products[ci.product_id].name,
                  stock_quantity |-> view.products[ci.product_id].stock_quantity,
                  subtotal |-> ci.quantity * ci.price_at_addition]>> \o rest
          ELSE rest

\* cartItems.reduce((sum, item) => sum + parseFloat(item.subtotal), 0)
RECURSIVE reduceTotal(_)
reduceTotal(items) ==
  IF items = <<>> THEN 0
  ELSE reduceTotal(SubSeq(items, 1, Len(items) - 1))
         + parseFloat(items[Len(items)].subtotal)

\* a stock loop that returns after looking at the first item only
FirstShortfallHeadOnly(items) ==
  IF Len(items) > 0 /\ items[1].stock_quantity < items[1].quantity THEN 1 ELSE 0

\* index of the first item the stock loop rejects, 0 when there is none
FirstShortfall(items) ==
  IF \E i \in 1..Len(items) : items[i].stock_quantity < items[i].quantity
  THEN CHOOSE i \in 1..Len(items) :
         /\ items[i].stock_quantity < items[i].quantity
         /\ \A j \in 1..(i - 1) : ~(items[j].stock_quantity < items[j].quantity)
  ELSE 0

\* ------------------------------------------------------- records
NoRes == [status |-> 0, error |-> "", product |-> "", available |-> 0,
          requested |-> 0, order |-> <<>>]
ErrRes(s, e) == [NoRes EXCEPT !.status = s, !.error = e]

NoTrx == [active |-> FALSE, view |-> <<>>, orders |-> {}, order_items |-> {},
          stock |-> <<>>, carts |-> {}, slocks |-> {}]
NoLocal == [carts |-> <<>>, cartItems |-> <<>>, totalAmount |-> 0, orderId |-> 0,
            i |-> 0, pending |-> NoRes]
\* a handler of another route that has not received its request
NoSvc == [pc |-> "idle", op |-> "", user_id |-> 0, cart_id |-> 0,
          product_id |-> 0, quantity |-> 0, price |-> 0, id |-> 0,
          body |-> <<>>, status |-> 0]
NoConn == [acquired |-> 0, released |-> 0]

\* ------------------------------------------------------- row locks
XHeld(q, tbl, id) ==
  \/ tbl = "products" /\ id \in DOMAIN trx[q].stock
  \/ tbl = "carts" /\ id \in trx[q].carts
SHeld(q, tbl, id) == <<tbl, id>> \in trx[q].slocks
CanLockS(p, tbl, id) == \A q \in Procs \ {p} : ~XHeld(q, tbl, id)
CanLockX(p, tbl, id) ==
  \A q \in Procs \ {p} : ~XHeld(q, tbl, id) /\ ~SHeld(q, tbl, id)

\* ------------------------------------------------------- initial state
LineRow(c, p, q) == [cart_id |-> c, product_id |-> p, quantity |-> q,
                     price_at_addition |-> PriceAtAddition[p]]
\* the possible contents of cart 1: no line, one line, or a line of each
\* product in either insertion order; cart 2 holds one unit of product 1
CartLines(c) ==
  {<<>>}
  \cup {<<LineRow(c, p, q)>> : p \in ProductIds, q \in QtyChoices}
  \cup {<<LineRow(c, p1, q1), LineRow(c, 3 - p1, q2)>> :
          p1 \in ProductIds, q1 \in QtyChoices, q2 \in QtyChoices}

Init ==
  /\ carts = [c \in CartIds |-> [user_id |-> CartOwner[c], status |-> "active"]]
  /\ \E l1 \in CartLines(1) : cart_items = l1 \o <<LineRow(2, 1, 1)>>
  /\ \E s \in [ProductIds -> StockChoices] :
       /\ products = [p \in ProductIds |->
                        [name |-> ProductName[p], price |-> CurrentPrice[p],
                         stock_quantity |-> s[p]]]
       /\ stock0 = s
  /\ orders = {}
  /\ order_items = {}
  /\ insertId = 0
  /\ trx = [p \in Procs |-> NoTrx]
  /\ connection = [p \in Procs |-> NoConn]
  /\ pc = [p \in Procs |-> "idle"]
  /\ req = [p \in Procs |-> [user_id |-> 0, cart_id |-> 0]]
  /\ local = [p \in Procs |-> NoLocal]
  /\ res = [p \in Procs |-> NoRes]
  /\ mutated = [p \in Procs |-> FALSE]
  /\ second = [p \in Procs |-> FALSE]
  /\ svc = [s \in SvcProcs |-> NoSvc]
  /\ dbPool = 1
  /\ pools = 1

\* ------------------------------------------------------- handler pieces
Held(p) == connection[p].acquired - connection[p].released

\* finally { if (connection) connection.release(); }
Finally(c) == IF c.acquired > 0 THEN [c EXCEPT !.released = @ + 1] ELSE c

\* a handler that releases at the end of the try block instead of in finally:
\* the connection goes back to the pool only after the 201 response
ReturnReleaseInTry(p) ==
  /\ connection' = [connection EXCEPT ![p] =
                      IF res'[p].status = 201 THEN Finally(@) ELSE @]
  /\ local' = [local EXCEPT ![p] = NoLocal]
  /\ pc' = [pc EXCEPT ![p] = "done"]

\* the handler of p returns: the finally block runs, the handler is over
Return(p) ==
  /\ connection' = [connection EXCEPT ![p] = Finally(connection[p])]
  /\ local' = [local EXCEPT ![p] = NoLocal]
  /\ pc' = [pc EXCEPT ![p] = "done"]

\* await connection.rollback(); return res.status(...).json(...)
RollbackAndReturn(p, response) ==
  /\ local' = [local EXCEPT ![p].pending = response]
  /\ pc' = [pc EXCEPT ![p] = "rollback"]

\* the committed tables after the writes of transaction t are applied
CommitCarts(t) ==
  [c \in DOMAIN carts |->
     IF c \in t.carts THEN [carts[c] EXCEPT !.status = "ordered"] ELSE carts[c]]
CommitProducts(t) ==
  [id \in DOMAIN products |->
     IF id \in DOMAIN t.stock
     THEN [products[id] EXCEPT !.stock_quantity = t.stock[id]]
     ELSE products[id]]

\* the order of the 201 response
OrderBody(p) ==
  [id |-> local[p].orderId,
   user_id |-> req[p].user_id,
   cart_id |-> req[p].cart_id,
   total_amount |-> toFixed2(local[p].totalAmount),
   status |-> "pending",
   items |-> [k \in 1..Len(local[p].cartItems) |->
                [product_id |-> local[p].cartItems[k].product_id,
                 product_name |-> local[p].cartItems[k].product_name,
                 quantity |-> local[p].cartItems[k].quantity,
                 price |-> local[p].cartItems[k].price_at_addition,
                 subtotal |-> local[p].cartItems[k].subtotal]]]

\* ------------------------------------------------------- POST /orders
\* entry of the handler up to `await initDatabase()`
Start(p) ==
  /\ pc[p] = "idle"
  /\ \E body \in Bodies :
       /\ req' = [req EXCEPT ![p] = [user_id |-> body[1], cart_id |-> body[2]]]
       /\ IF body[1] = 0 \/ body[2] = 0
          THEN /\ res' = [res EXCEPT ![p] =
                            ErrRes(400, "user_id and cart_id are required")]
               /\ Return(p)
          ELSE /\ pc' = [pc EXCEPT ![p] = "getConnection"]
               /\ UNCHANGED <<res, connection, local>>
  /\ second' = [second EXCEPT ![p] =
                  \E q \in Procs : /\ pc[q] = "done"
                                   /\ res[q].status = 201
                                   /\ req[q].cart_id = req'[p].cart_id]
  /\ UNCHANGED <<store, insertId, trx, mutated, stock0, svc, dbPool, pools>>

\* pool = await initDatabase(); connection = await pool.getConnection()
GetConnection(p) ==
  /\ pc[p] = "getConnection"
  /\ SeqSum([q \in 1..Cardinality(Procs) |-> Held(q)]) < connectionLimit
  /\ connection' = [connection EXCEPT ![p].acquired = @ + 1]
  /\ pc' = [pc EXCEPT ![p] = "beginTransaction"]
  /\ UNCHANGED <<store, insertId, trx, req, local, res, mutated, second,
                 stock0, svc, dbPool, pools>>

\* initDatabase() or getConnection() rejects: catch without a connection
GetConnectionThrows(p) ==
  /\ pc[p] = "getConnection"
  /\ res' = [res EXCEPT ![p] = ErrRes(500, "Failed to place order")]
  /\ UNCHANGED <<store, insertId, trx, req, mutated, second, stock0, svc,
                 dbPool, pools>>
  /\ Return(p)

\* await connection.beginTransaction()
BeginTransaction(p) ==
  /\ pc[p] = "beginTransaction"
  /\ trx' = [trx EXCEPT ![p] = [NoTrx EXCEPT !.active = TRUE]]
  /\ pc' = [pc EXCEPT ![p] = "selectUser"]
  /\ UNCHANGED <<store, insertId, connection, req, local, res, mutated, second,
                 stock0, svc, dbPool, pools>>

\* SELECT id FROM users WHERE id = ?  (the transaction's first read: snapshot)
SelectUser(p) ==
  /\ pc[p] = "selectUser"
  /\ trx' = [trx EXCEPT ![p].view =
               [carts |-> carts, cart_items |-> cart_items, products |-> products]]
  /\ IF req[p].user_id \notin Users
     THEN RollbackAndReturn(p, ErrRes(404, "User not found"))
     ELSE /\ pc' = [pc EXCEPT ![p] = "selectCart"]
          /\ UNCHANGED local
  /\ UNCHANGED <<store, insertId, connection, req, res, mutated, second,
                 stock0, svc, dbPool, pools>>

\* the cart query without its status test: ... FROM carts WHERE id = ?
SelectCartRowsAnyStatus(view, c) ==
  IF c \in DOMAIN view.carts
  THEN <<[id |-> c, user_id |-> view.carts[c].user_id,
          status |-> view.carts[c].status]>>
  ELSE <<>>

\* SELECT id, user_id, status FROM carts WHERE id = ? AND status = "active"
SelectCartRows(view, c) ==
  IF c \in DOMAIN view.carts /\ view.carts[c].status = "active"
  THEN <<[id |-> c, user_id |-> view.carts[c].user_id,
          status |-> view.carts[c].status]>>
  ELSE <<>>

\* a handler that does not compare the owner of the cart with the user
SelectCartAnyOwner(p) ==
  /\ pc[p] = "selectCart"
  /\ LET rows == SelectCartRows(trx[p].view, req[p].cart_id)
     IN IF Len(rows) = 0
        THEN RollbackAndReturn(p, ErrRes(404, "Cart not found or not active"))
        ELSE /\ local' = [local EXCEPT ![p].carts = rows]
             /\ pc' = [pc EXCEPT ![p] = "selectItems"]
  /\ UNCHANGED <<store, insertId, trx, connection, req, res, mutated, second,
                 stock0, svc, dbPool, pools>>

\* a handler that looks at the owner of the cart row before its status
SelectCartOwnerFirst(p) ==
  /\ pc[p] = "selectCart"
  /\ LET rows == SelectCartRowsAnyStatus(trx[p].view, req[p].cart_id)
     IN IF Len(rows) = 0
        THEN RollbackAndReturn(p, ErrRes(404, "Cart not found or not active"))
        ELSE IF rows[1].user_id # req[p].user_id
        THEN RollbackAndReturn(p, ErrRes(403, "Cart does not belong to this user"))
        ELSE IF rows[1].status # "active"
        THEN RollbackAndReturn(p, ErrRes(404, "Cart not found or not active"))
        ELSE /\ local' = [local EXCEPT ![p].carts = rows]
             /\ pc' = [pc EXCEPT ![p] = "selectItems"]
  /\ UNCHANGED <<store, insertId, trx, connection, req, res, mutated, second,
                 stock0, svc, dbPool, pools>>

SelectCart(p) ==
  /\ pc[p] = "selectCart"
  /\ LET rows == SelectCartRows(trx[p].view, req[p].cart_id)
     IN IF Len(rows) = 0
        THEN RollbackAndReturn(p, ErrRes(404, "Cart not found or not active"))
        ELSE IF rows[1].user_id # req[p].user_id
        THEN RollbackAndReturn(p, ErrRes(403, "Cart does not belong to this user"))
        ELSE /\ local' = [local EXCEPT ![p].carts = rows]
             /\ pc' = [pc EXCEPT ![p] = "selectItems"]
  /\ UNCHANGED <<store, insertId, trx, connection, req, res, mutated, second,
                 stock0, svc, dbPool, pools>>

\* SELECT ... FROM cart_items ci JOIN products p ...; the empty check, the
\* stock loop and the total follow without an await
SelectItems(p) ==
  /\ pc[p] = "selectItems"
  /\ LET cartItems == SelectRows(trx[p].view, req[p].cart_id)
         k == FirstShortfall(cartItems)
     IN IF Len(cartItems) = 0
        THEN RollbackAndReturn(p, ErrRes(400, "Cart is empty"))
        ELSE IF k # 0
        THEN RollbackAndReturn(p,
               [NoRes EXCEPT !.status = 400, !.error = "Insufficient stock",
                             !.product = cartItems[k].product_name,
                             !.available = cartItems[k].stock_quantity,
                             !.requested = cartItems[k].quantity])
        ELSE /\ local' = [local EXCEPT ![p].cartItems = cartItems,
                                       ![p].totalAmount = reduceTotal(cartItems)]
             /\ pc' = [pc EXCEPT ![p] = "insertOrder"]
  /\ UNCHANGED <<store, insertId, trx, connection, req, res, mutated, second,
                 stock0, svc, dbPool, pools>>

\* an INSERT INTO orders sent through the pool: it is committed at once,
\* outside the handler's transaction
InsertOrderAutocommit(p) ==
  /\ pc[p] = "insertOrder"
  /\ CanLockS(p, "carts", req[p].cart_id)
  /\ insertId' = insertId + 1
  /\ orders' = orders \cup {[id |-> insertId + 1,
                             user_id |-> req[p].user_id,
                             cart_id |-> req[p].cart_id,
                             total_amount |-> toDecimal2(local[p].totalAmount),
                             status |-> "pending"]}
  /\ local' = [local EXCEPT ![p].orderId = insertId + 1, ![p].i = 1]
  /\ pc' = [pc EXCEPT ![p] = "insertItem"]
  /\ mutated' = [mutated EXCEPT ![p] = TRUE]
  /\ UNCHANGED <<carts, cart_items, products, order_items, trx, connection,
                 req, res, second, stock0, svc, dbPool, pools>>

\* INSERT INTO orders (...) VALUES (...); FOREIGN KEY (cart_id) locks the cart row
InsertOrder(p) ==
  /\ pc[p] = "insertOrder"
  /\ CanLockS(p, "carts", req[p].cart_id)
  /\ insertId' = insertId + 1
  /\ trx' = [trx EXCEPT
       ![p].orders = @ \cup {[id |-> insertId + 1,
                              user_id |-> req[p].user_id,
                              cart_id |-> req[p].cart_id,
                              total_amount |-> toDecimal2(local[p].totalAmount),
                              status |-> "pending"]},
       ![p].slocks = @ \cup {<<"carts", req[p].cart_id>>}]
  /\ local' = [local EXCEPT ![p].orderId = insertId + 1, ![p].i = 1]
  /\ pc' = [pc EXCEPT ![p] = "insertItem"]
  /\ UNCHANGED <<store, connection, req, res, mutated, second, stock0, svc,
                 dbPool, pools>>

\* an INSERT INTO order_items sent through the pool: the line is committed
\* at once, outside the handler's transaction
InsertItemAutocommit(p) ==
  /\ pc[p] = "insertItem"
  /\ LET item == local[p].cartItems[local[p].i]
     IN /\ CanLockS(p, "products", item.product_id)
        /\ order_items' = order_items \cup {[order_id |-> local[p].orderId,
                                             product_id |-> item.product_id,
                                             product_name |-> item.product_name,
                                             quantity |-> item.quantity,
                                             price |-> item.price_at_addition,
                                             subtotal |-> item.subtotal]}
        /\ trx' = [trx EXCEPT
             ![p].slocks = @ \cup {<<"products", item.product_id>>}]
  /\ pc' = [pc EXCEPT ![p] = "updateStock"]
  /\ mutated' = [mutated EXCEPT ![p] = TRUE]
  /\ UNCHANGED <<carts, cart_items, products, orders, insertId, connection,
                 req, local, res, second, stock0, svc, dbPool, pools>>

\* INSERT INTO order_items (...); FOREIGN KEY (product_id) locks the product row
InsertItem(p) ==
  /\ pc[p] = "insertItem"
  /\ LET item == local[p].cartItems[local[p].i]
     IN /\ CanLockS(p, "products", item.product_id)
        /\ trx' = [trx EXCEPT
             ![p].order_items = @ \cup {[order_id |-> local[p].orderId,
                                         product_id |-> item.product_id,
                                         product_name |-> item.product_name,
                                         quantity |-> item.quantity,
                                         price |-> item.price_at_addition,
                                         subtotal |-> item.subtotal]},
             ![p].slocks = @ \cup {<<"products", item.product_id>>}]
  /\ pc' = [pc EXCEPT ![p] = "updateStock"]
  /\ UNCHANGED <<store, insertId, connection, req, local, res, mutated, second,
                 stock0, svc, dbPool, pools>>

\* SET stock_quantity = ? with item.stock_quantity - item.quantity: the new
\* stock computed from the value the handler's SELECT had read
DecrementedStockAsRead(t, id, quantity) ==
  t.view.products[id].stock_quantity - quantity

\* UPDATE products SET stock_quantity = stock_quantity - ? WHERE id = ?
DecrementedStock(t, id, quantity) ==
  (IF id \in DOMAIN t.stock THEN t.stock[id] ELSE products[id].stock_quantity)
    - quantity

\* a decrement that re-checks the stock when it updates and, on a shortfall,
\* answers 400 without rolling back: what was written before it stays
UpdateStockChecked(p) ==
  /\ pc[p] = "updateStock"
  /\ LET item == local[p].cartItems[local[p].i]
     IN /\ CanLockX(p, "products", item.product_id)
        /\ IF products[item.product_id].stock_quantity < item.quantity
           THEN /\ orders' = orders \cup trx[p].orders
                /\ order_items' = order_items \cup trx[p].order_items
                /\ products' = CommitProducts(trx[p])
                /\ carts' = CommitCarts(trx[p])
                /\ trx' = [trx EXCEPT ![p] = NoTrx]
                /\ res' = [res EXCEPT ![p] = ErrRes(400, "Insufficient stock")]
                /\ UNCHANGED <<cart_items, insertId, req, second, stock0,
                               svc, dbPool, pools>>
                /\ mutated' = [mutated EXCEPT ![p] = @ \/ store' # store]
                /\ Return(p)
           ELSE /\ trx' = [trx EXCEPT ![p].stock =
                             (item.product_id :>
                                DecrementedStock(trx[p], item.product_id,
                                                 item.quantity)) @@ @]
                /\ local' = [local EXCEPT ![p].i = @ + 1]
                /\ pc' = [pc EXCEPT ![p] =
                            IF local[p].i < Len(local[p].cartItems)
                            THEN "insertItem" ELSE "updateCart"]
                /\ UNCHANGED <<store, insertId, connection, req, res, mutated,
                               second, stock0, svc, dbPool, pools>>

UpdateStock(p) ==
  /\ pc[p] = "updateStock"
  /\ LET item == local[p].cartItems[local[p].i]
     IN /\ CanLockX(p, "products", item.product_id)
        /\ trx' = [trx EXCEPT ![p].stock =
                     (item.product_id :>
                        DecrementedStock(trx[p], item.product_id, item.quantity))
                     @@ @]
  /\ local' = [local EXCEPT ![p].i = @ + 1]
  /\ pc' = [pc EXCEPT ![p] =
              IF local[p].i < Len(local[p].cartItems)
              THEN "insertItem" ELSE "updateCart"]
  /\ UNCHANGED <<store, insertId, connection, req, res, mutated, second,
                 stock0, svc, dbPool, pools>>

\* UPDATE carts SET status = "ordered" WHERE id = ?
UpdateCart(p) ==
  /\ pc[p] = "updateCart"
  /\ CanLockX(p, "carts", req[p].cart_id)
  /\ trx' = [trx EXCEPT ![p].carts = @ \cup {req[p].cart_id}]
  /\ pc' = [pc EXCEPT ![p] = "commit"]
  /\ UNCHANGED <<store, insertId, connection, req, local, res, mutated, second,
                 stock0, svc, dbPool, pools>>

\* await connection.commit(); res.status(201).json(...)
Commit(p) ==
  /\ pc[p] = "commit"
  /\ orders' = orders \cup trx[p].orders
  /\ order_items' = order_items \cup trx[p].order_items
  /\ products' = CommitProducts(trx[p])
  /\ carts' = CommitCarts(trx[p])
  /\ trx' = [trx EXCEPT ![p] = NoTrx]
  /\ res' = [res EXCEPT ![p] =
               [NoRes EXCEPT !.status = 201, !.order = OrderBody(p)]]
  /\ UNCHANGED <<cart_items, insertId, req, second, stock0, svc, dbPool, pools>>
  /\ mutated' = [mutated EXCEPT ![p] = @ \/ store' # store]
  /\ Return(p)

\* await connection.rollback(); return res.status(4xx).json(...)
Rollback(p) ==
  /\ pc[p] = "rollback"
  /\ trx' = [trx EXCEPT ![p] = NoTrx]
  /\ res' = [res EXCEPT ![p] = local[p].pending]
  /\ UNCHANGED <<store, insertId, req, mutated, second, stock0, svc, dbPool,
                 pools>>
  /\ Return(p)

\* an awaited store call inside the try block rejects (connection lost, lock
\* wait timeout, deadlock victim): control goes to the catch block
TryAwaits == {"beginTransaction", "selectUser", "selectCart", "selectItems",
              "insertOrder", "insertItem", "updateStock", "updateCart",
              "commit", "rollback"}

\* (the try block's constants go out of scope, the snapshot is not read again)
QueryThrows(p) ==
  /\ pc[p] \in TryAwaits
  /\ pc' = [pc EXCEPT ![p] = "catch"]
  /\ local' = [local EXCEPT ![p] = NoLocal]
  /\ trx' = [trx EXCEPT ![p].view = <<>>]
  /\ UNCHANGED <<store, insertId, connection, req, res, mutated, second,
                 stock0, svc, dbPool, pools>>

\* a catch block that cannot undo: the statements were not run inside the
\* transaction, so what had been written stays
CatchWithoutTransaction(p) ==
  /\ pc[p] = "catch"
  /\ orders' = orders \cup trx[p].orders
  /\ order_items' = order_items \cup trx[p].order_items
  /\ products' = CommitProducts(trx[p])
  /\ carts' = CommitCarts(trx[p])
  /\ trx' = [trx EXCEPT ![p] = NoTrx]
  /\ res' = [res EXCEPT ![p] = ErrRes(500, "Failed to place order")]
  /\ UNCHANGED <<cart_items, insertId, req, second, stock0, svc, dbPool, pools>>
  /\ mutated' = [mutated EXCEPT ![p] = @ \/ store' # store]
  /\ Return(p)

\* catch: await connection.rollback(); res.status(500).json(...)
CatchRollback(p) ==
  /\ pc[p] = "catch"
  /\ trx' = [trx EXCEPT ![p] = NoTrx]
  /\ res' = [res EXCEPT ![p] = ErrRes(500, "Failed to place order")]
  /\ UNCHANGED <<store, insertId, req, mutated, second, stock0, svc, dbPool,
                 pools>>
  /\ Return(p)

\* catch: the rollback itself rejects (the connection is gone, the server
\* aborts the transaction); the error leaves the handler, finally still runs
CatchRollbackThrows(p) ==
  /\ pc[p] = "catch"
  /\ trx' = [trx EXCEPT ![p] = NoTrx]
  /\ UNCHANGED <<store, insertId, req, res, mutated, second, stock0, svc,
                 dbPool, pools>>
  /\ Return(p)

Next ==
  \E p \in Procs :
    \/ Start(p)
    \/ GetConnection(p)
    \/ GetConnectionThrows(p)
    \/ BeginTransaction(p)
    \/ SelectUser(p)
    \/ SelectCart(p)
    \/ SelectItems(p)
    \/ InsertOrder(p)
    \/ InsertItem(p)
    \/ UpdateStock(p)
    \/ UpdateCart(p)
    \/ Commit(p)
    \/ Rollback(p)
    \/ QueryThrows(p)
    \/ CatchRollback(p)
    \/ CatchRollbackThrows(p)

Spec == Init /\ [][Next]_vars

\* ------------------------------------------------------- cart service
\* The handlers of the other routes use pool.query: every statement is its
\* own autocommit transaction on the committed tables, and waits for the row
\* locks a checkout transaction holds.  Each handler serves one request.

\* req.body.user_id of the POST /cart/create requests tried: 0 is a missing
\* field, 3 an id with no row
CreateBodies == {0, 1, 2, 3}
\* req.body of the POST /cart/items requests tried, <<cart_id, product_id,
\* quantity>>: cart 2 may not exist yet, product 3 never does; the quantity
\* is a JSON number, the last one is 0.25
AddBodies == {<<1, 1, Num(1)>>, <<2, 1, Num(1)>>, <<1, 3, Num(1)>>, <<1, 1, 0>>,
              <<1, 1, -Num(1)>>, <<1, 1, Num(MaxStock + 1)>>,
              <<1, 1, Pow2(FracBits - 2)>>}
\* req.body.quantity of the PUT /cart/items/:item_id requests tried: 0, -1,
\* MaxQty + 1 and 0.25
UpdateQuantities == {0, -Num(1), Num(MaxQty + 1), Pow2(FracBits - 2)}

\* res.status(status).json(...) and the handler returns; id and body keep
\* req.params.id and the req.body field of a request served by one statement
SvcReturnWith(s, op, status, id, body) ==
  svc' = [svc EXCEPT ![s] = [NoSvc EXCEPT !.pc = "done", !.op = op,
                                          !.status = status, !.id = id,
                                          !.body = body]]
SvcReturn(s, op, status) == SvcReturnWith(s, op, status, 0, <<>>)
\* the handler goes on to its next await
SvcGoto(s, next) == svc' = [svc EXCEPT ![s].pc = next]
checkoutVars == <<insertId, trx, connection, pc, req, local, res, mutated,
                  second, stock0, dbPool, pools>>

\* no checkout transaction holds a lock that an autocommit statement needs
FreeForS(tbl, id) == \A q \in Procs : ~XHeld(q, tbl, id)
FreeForX(tbl, id) == \A q \in Procs : ~XHeld(q, tbl, id) /\ ~SHeld(q, tbl, id)

\* POST /cart/create: const { user_id } = req.body; if (!user_id) 400
CartCreate(s) ==
  /\ svc[s].pc = "idle"
  /\ \E u \in CreateBodies :
       IF u = 0
       THEN SvcReturn(s, "cart/create", 400)
       ELSE svc' = [svc EXCEPT ![s] = [NoSvc EXCEPT !.pc = "create.selectUser",
                                       !.op = "cart/create", !.user_id = u]]
  /\ UNCHANGED <<store, checkoutVars>>

\* SELECT id FROM users WHERE id = ?
CartCreateSelectUser(s) ==
  /\ svc[s].pc = "create.selectUser"
  /\ IF svc[s].user_id \notin Users
     THEN SvcReturn(s, "cart/create", 404)
     ELSE SvcGoto(s, "create.selectActive")
  /\ UNCHANGED <<store, checkoutVars>>

\* the ids of the active carts of user u
ActiveCarts(u) ==
  {c \in DOMAIN carts : carts[c].user_id = u /\ carts[c].status = "active"}

\* SELECT id FROM carts WHERE user_id = ? AND status = "active"
CartCreateSelectActive(s) ==
  /\ svc[s].pc = "create.selectActive"
  /\ IF ActiveCarts(svc[s].user_id) # {}
     THEN SvcReturn(s, "cart/create", 200)
     ELSE SvcGoto(s, "create.insert")
  /\ UNCHANGED <<store, checkoutVars>>

\* a cart-creation that gives the user's ordered cart back to them
InsertCartReactivate(u) ==
  IF \E c \in DOMAIN carts : carts[c].user_id = u
  THEN [c \in DOMAIN carts |->
          IF carts[c].user_id = u THEN [carts[c] EXCEPT !.status = "active"]
          ELSE carts[c]]
  ELSE carts @@ ((Cardinality(DOMAIN carts) + 1)
                   :> [user_id |-> u, status |-> "active"])
\* INSERT INTO carts (user_id, status) VALUES (?, "active"): table carts after
\* it (ids are AUTO_INCREMENT and no cart is ever deleted)
InsertCart(u) ==
  carts @@ ((Cardinality(DOMAIN carts) + 1)
              :> [user_id |-> u, status |-> "active"])

CartCreateInsert(s) ==
  /\ svc[s].pc = "create.insert"
  /\ carts' = InsertCart(svc[s].user_id)
  /\ SvcReturn(s, "cart/create", 201)
  /\ UNCHANGED <<cart_items, products, orders, order_items, checkoutVars>>

\* POST /cart/items: the two checks of req.body
CartAdd(s) ==
  /\ svc[s].pc = "idle"
  /\ \E b \in AddBodies :
       IF b[1] = 0 \/ b[2] = 0 \/ b[3] = 0 \/ b[3] <= 0
       THEN SvcReturnWith(s, "cart/items", 400, b[1], b[3])
       ELSE svc' = [svc EXCEPT ![s] = [NoSvc EXCEPT !.pc = "add.selectCart",
                                       !.op = "cart/items", !.cart_id = b[1],
                                       !.product_id = b[2], !.quantity = b[3]]]
  /\ UNCHANGED <<store, checkoutVars>>

\* SELECT id, status FROM carts WHERE id = ?
CartAddSelectCart(s) ==
  /\ svc[s].pc = "add.selectCart"
  /\ IF svc[s].cart_id \notin DOMAIN carts
     THEN SvcReturn(s, "cart/items", 404)
     ELSE IF carts[svc[s].cart_id].status # "active"
          THEN SvcReturn(s, "cart/items", 400)
          ELSE SvcGoto(s, "add.selectProduct")
  /\ UNCHANGED <<store, checkoutVars>>

\* SELECT id, name, price, stock_quantity FROM products WHERE id = ?
CartAddSelectProduct(s) ==
  /\ svc[s].pc = "add.selectProduct"
  /\ IF svc[s].product_id \notin DOMAIN products
     THEN SvcReturn(s, "cart/items", 404)
     ELSE IF Num(products[svc[s].product_id].stock_quantity) < svc[s].quantity
          THEN SvcReturn(s, "cart/items", 400)
          ELSE svc' = [svc EXCEPT ![s].pc = "add.insert",
                                  ![s].price = products[svc[s].product_id].price]
  /\ UNCHANGED <<store, checkoutVars>>

\* INSERT INTO cart_items ... ON DUPLICATE KEY UPDATE quantity = quantity +
\* VALUES(quantity), price_at_addition = VALUES(price_at_addition): table
\* cart_items after it (UNIQUE KEY (cart_id, product_id))
UpsertItem(c, id, quantity, price) ==
  IF \E k \in 1..Len(cart_items) :
       cart_items[k].cart_id = c /\ cart_items[k].product_id = id
  THEN [k \in 1..Len(cart_items) |->
          IF cart_items[k].cart_id = c /\ cart_items[k].product_id = id
          THEN [cart_items[k] EXCEPT !.quantity = toInt(Num(@) + quantity),
                                     !.price_at_addition = price]
          ELSE cart_items[k]]
  ELSE Append(cart_items, [cart_id |-> c, product_id |-> id,
                           quantity |-> toInt(quantity),
                           price_at_addition |-> price])

\* the INSERT checks both FOREIGN KEYs under a shared lock on the parent rows
CartAddInsert(s) ==
  /\ svc[s].pc = "add.insert"
  /\ FreeForS("carts", svc[s].cart_id)
  /\ FreeForS("products", svc[s].product_id)
  /\ cart_items' = UpsertItem(svc[s].cart_id, svc[s].product_id,
                              svc[s].quantity, svc[s].price)
  /\ SvcReturn(s, "cart/items", 201)
  /\ UNCHANGED <<carts, products, orders, order_items, checkoutVars>>

\* PUT /cart/items/:item_id; item_id k addresses the k-th row of the table,
\* Len(cart_items) + 1 is an id with no row
\* UPDATE cart_items SET quantity = ? WHERE id = ?, or the query rejects (500)
CartUpdateItem(s) ==
  /\ svc[s].pc = "idle"
  /\ \E k \in 1..(Len(cart_items) + 1), quantity \in UpdateQuantities :
       IF quantity = 0 \/ quantity <= 0
       THEN /\ SvcReturnWith(s, "cart/items/:item_id", 400, k, quantity)
            /\ UNCHANGED cart_items
       ELSE IF k > Len(cart_items)
            THEN /\ SvcReturnWith(s, "cart/items/:item_id", 404, k, quantity)
                 /\ UNCHANGED cart_items
            ELSE \/ /\ cart_items' = [cart_items EXCEPT
                                        ![k].quantity = toInt(quantity)]
                    /\ SvcReturnWith(s, "cart/items/:item_id", 200, k, quantity)
                 \/ /\ SvcReturnWith(s, "cart/items/:item_id", 500, k, quantity)
                    /\ UNCHANGED cart_items
  /\ UNCHANGED <<carts, products, orders, order_items, checkoutVars>>

\* DELETE /cart/items/:item_id: DELETE FROM cart_items WHERE id = ?
CartDeleteItem(s) ==
  /\ svc[s].pc = "idle"
  /\ \E k \in 1..(Len(cart_items) + 1) :
       IF k > Len(cart_items)
       THEN SvcReturn(s, "delete cart/items/:item_id", 404) /\ UNCHANGED cart_items
       ELSE \/ /\ cart_items' = [j \in 1..(Len(cart_items) - 1) |->
                                   IF j < k THEN cart_items[j] ELSE cart_items[j + 1]]
               /\ SvcReturn(s, "delete cart/items/:item_id", 200)
            \/ /\ SvcReturn(s, "delete cart/items/:item_id", 500)
               /\ UNCHANGED cart_items
  /\ UNCHANGED <<carts, products, orders, order_items, checkoutVars>>

\* an awaited pool.query of a cart-service handler rejects: catch answers 500
SvcQueryThrows(s) ==
  /\ svc[s].pc \notin {"idle", "done"}
  /\ SvcReturn(s, svc[s].op, 500)
  /\ UNCHANGED <<store, checkoutVars>>

\* a step of the POST /orders handler p
Checkout(p) ==
  \/ Start(p)
  \/ GetConnection(p)
  \/ GetConnectionThrows(p)
  \/ BeginTransaction(p)
  \/ SelectUser(p)
  \/ SelectCart(p)
  \/ SelectItems(p)
  \/ InsertOrder(p)
  \/ InsertItem(p)
  \/ UpdateStock(p)
  \/ UpdateCart(p)
  \/ Commit(p)
  \/ Rollback(p)
  \/ QueryThrows(p)
  \/ CatchRollback(p)
  \/ CatchRollbackThrows(p)

\* no request received yet by any handler
HandlersIdle ==
  /\ insertId = 0
  /\ trx = [p \in Procs |-> NoTrx]
  /\ connection = [p \in Procs |-> NoConn]
  /\ pc = [p \in Procs |-> "idle"]
  /\ req = [p \in Procs |-> [user_id |-> 0, cart_id |-> 0]]
  /\ local = [p \in Procs |-> NoLocal]
  /\ res = [p \in Procs |-> NoRes]
  /\ mutated = [p \in Procs |-> FALSE]
  /\ second = [p \in Procs |-> FALSE]
  /\ svc = [s \in SvcProcs |-> NoSvc]
  /\ dbPool = 1
  /\ pools = 1

\* the products in stock, no order yet
FullStock ==
  /\ products = [p \in ProductIds |->
                   [name |-> ProductName[p], price |-> CurrentPrice[p],
                    stock_quantity |-> MaxStock]]
  /\ stock0 = [p \in ProductIds |-> MaxStock]
  /\ orders = {}
  /\ order_items = {}

\* user 1 has an active cart with a line of each product, user 2 has no cart
InitServices ==
  /\ carts = (1 :> [user_id |-> 1, status |-> "active"])
  /\ cart_items = <<LineRow(1, 1, 1), LineRow(1, 2, MaxQty)>>
  /\ FullStock
  /\ HandlersIdle

\* one checkout handler next to the handlers of the cart service
NextCart ==
  \/ Checkout(1)
  \/ \E s \in SvcProcs :
       \/ CartCreate(s)
       \/ CartCreateSelectUser(s)
       \/ CartCreateSelectActive(s)
       \/ CartCreateInsert(s)
       \/ CartAdd(s)
       \/ CartAddSelectCart(s)
       \/ CartAddSelectProduct(s)
       \/ CartAddInsert(s)
       \/ CartUpdateItem(s)
       \/ CartDeleteItem(s)
       \/ SvcQueryThrows(s)

SpecCart == InitServices /\ [][NextCart]_vars

\* ------------------------------------------------------- product service
\* req.body is a record of the fields the request has: a field is undefined
\* when the record lacks it
Has(b, field) == field \in DOMAIN b
\* req.body of the POST /products requests tried
ProductBodies ==
  {[price |-> 500, stock_quantity |-> 1],
   [name |-> "productC", price |-> 500],
   [name |-> "productC", price |-> 500, stock_quantity |-> 1]}
\* req.body of the PUT /products/:id requests tried
ProductUpdates ==
  {[stock_quantity |-> 0],
   [name |-> "renamed", price |-> 1299],
   <<>>}
\* req.params.id of the PUT /products/:id requests tried; product 4 has no row
\* unless two products were created
ProductParams == {1, 4}

\* POST /products: INSERT INTO products (...) VALUES (..., stock_quantity || 0,
\* ...), or the query rejects (500)
ProductCreate(s) ==
  /\ svc[s].pc = "idle"
  /\ \E b \in ProductBodies :
       IF ~Has(b, "name") \/ ~Has(b, "price") \/ b.price = 0
       THEN SvcReturn(s, "products", 400) /\ UNCHANGED products
       ELSE \/ /\ products' = products @@
                    ((Cardinality(DOMAIN products) + 1) :>
                       [name |-> b.name, price |-> b.price,
                        stock_quantity |->
                          IF Has(b, "stock_quantity") THEN b.stock_quantity
                          ELSE 0])
               /\ SvcReturn(s, "products", 201)
            \/ SvcReturn(s, "products", 500) /\ UNCHANGED products
  /\ UNCHANGED <<carts, cart_items, orders, order_items, checkoutVars>>

\* a product update that carries the new name into the order lines
UpdatedOrderItemsCascade(id, b) ==
  {IF i.product_id = id /\ Has(b, "name")
   THEN [i EXCEPT !.product_name = b.name] ELSE i : i \in order_items}
\* table order_items after PUT /products/:id: its UPDATE names table products
\* only
UpdatedOrderItems(id, b) == order_items

\* the row after UPDATE products SET <the fields of req.body> WHERE id = ?
UpdatedProduct(row, b) ==
  [name |-> IF Has(b, "name") THEN b.name ELSE row.name,
   price |-> IF Has(b, "price") THEN b.price ELSE row.price,
   stock_quantity |-> IF Has(b, "stock_quantity") THEN b.stock_quantity
                      ELSE row.stock_quantity]

\* PUT /products/:id; the UPDATE waits for the row locks of a checkout
ProductUpdate(s) ==
  /\ svc[s].pc = "idle"
  /\ \E id \in ProductParams, b \in ProductUpdates :
       IF DOMAIN b = {}
       THEN /\ SvcReturnWith(s, "products/:id", 400, id, b)
            /\ UNCHANGED <<products, order_items>>
       ELSE IF id \notin DOMAIN products
            THEN /\ SvcReturnWith(s, "products/:id", 404, id, b)
                 /\ UNCHANGED <<products, order_items>>
            ELSE \/ /\ FreeForX("products", id)
                    /\ products' = [products EXCEPT ![id] = UpdatedProduct(@, b)]
                    /\ order_items' = UpdatedOrderItems(id, b)
                    /\ SvcReturnWith(s, "products/:id", 200, id, b)
                 \/ /\ SvcReturnWith(s, "products/:id", 500, id, b)
                    /\ UNCHANGED <<products, order_items>>
  /\ UNCHANGED <<carts, cart_items, orders, checkoutVars>>

\* ------------------------------------------------------- order status
\* a list of statuses that lets one more value through
validStatusesAndRefunded ==
  {"pending", "processing", "shipped", "delivered", "cancelled", "refunded"}
validStatuses == {"pending", "processing", "shipped", "delivered", "cancelled"}
\* req.body.status of the PUT /orders/:id/status requests tried
StatusBodies == {"processing", "cancelled", "refunded", "undefined"}
\* req.params.id of the requests tried: order 2 is never created
OrderParams == {1, 2}

\* table orders after UPDATE orders SET status = ? WHERE id = ?
UpdatedOrders(id, status) ==
  {IF o.id = id THEN [o EXCEPT !.status = status] ELSE o : o \in orders}

\* PUT /orders/:id/status; the UPDATE waits while the addressed row is an
\* uncommitted insert of a checkout
OrderStatus(s) ==
  /\ svc[s].pc = "idle"
  /\ \E id \in OrderParams, status \in StatusBodies :
       IF status \notin validStatuses
       THEN /\ SvcReturnWith(s, "orders/:id/status", 400, id, status)
            /\ UNCHANGED orders
       ELSE \/ /\ \A p \in Procs : \A o \in trx[p].orders : o.id # id
               /\ IF \A o \in orders : o.id # id
                  THEN /\ SvcReturnWith(s, "orders/:id/status", 404, id, status)
                       /\ UNCHANGED orders
                  ELSE /\ orders' = UpdatedOrders(id, status)
                       /\ SvcReturnWith(s, "orders/:id/status", 200, id, status)
            \/ /\ SvcReturnWith(s, "orders/:id/status", 500, id, status)
               /\ UNCHANGED orders
  /\ UNCHANGED <<carts, cart_items, products, order_items, checkoutVars>>

\* one checkout handler next to the handlers of the product service and of
\* the order status route
NextCatalog ==
  \/ Checkout(1)
  \/ \E s \in SvcProcs :
       \/ ProductCreate(s)
       \/ ProductUpdate(s)
       \/ OrderStatus(s)

SpecCatalog == InitServices /\ [][NextCatalog]_vars

\* ------------------------------------------------------- shared products
\* the carts of users 1 and 2 both hold productA and productB; the lines of
\* cart 2 were added in the other order
InitLocks ==
  /\ carts = [c \in CartIds |-> [user_id |-> CartOwner[c], status |-> "active"]]
  /\ cart_items = <<LineRow(1, 1, 1), LineRow(1, 2, 1),
                    LineRow(2, 2, 1), LineRow(2, 1, 1)>>
  /\ FullStock
  /\ HandlersIdle

SpecLocks == InitLocks /\ [][Next]_vars

\* ------------------------------------------------------- initDatabase
\* A handler of the order service calls pool = await initDatabase() as its
\* first store step and then takes a connection of that pool for its work.
\* svc[s].id is the pool the statement in flight was sent to and, when the
\* call is over, the pool it returned.

\* initDatabase() has returned dbPool to the handler
InitDatabaseReturns(s) ==
  svc' = [svc EXCEPT ![s] = [NoSvc EXCEPT !.pc = "init.getConnection",
                                          !.op = "initDatabase", !.id = dbPool]]

\* if (dbPool) return dbPool; otherwise go on to await getDbCredentials()
InitDatabase(s) ==
  /\ svc[s].pc = "idle"
  /\ IF dbPool # 0
     THEN InitDatabaseReturns(s)
     ELSE svc' = [svc EXCEPT ![s] = [NoSvc EXCEPT !.pc = "init.getDbCredentials",
                                                  !.op = "initDatabase"]]
  /\ UNCHANGED <<store, insertId, trx, connection, pc, req, local, res, mutated,
                 second, stock0, dbPool, pools>>

\* credentials = await getDbCredentials() resolves; dbPool =
\* mysql.createPool({...}); the first CREATE TABLE is sent
CreatePool(s) ==
  /\ svc[s].pc = "init.getDbCredentials"
  /\ pools' = pools + 1
  /\ dbPool' = pools + 1
  /\ svc' = [svc EXCEPT ![s].pc = "init.createOrders", ![s].id = pools + 1]
  /\ UNCHANGED <<store, insertId, trx, connection, pc, req, local, res, mutated,
                 second, stock0>>

\* await dbPool.query(CREATE TABLE IF NOT EXISTS orders) resolves; the second
\* CREATE TABLE is sent
CreateOrdersTable(s) ==
  /\ svc[s].pc = "init.createOrders"
  /\ svc' = [svc EXCEPT ![s].pc = "init.createOrderItems", ![s].id = dbPool]
  /\ UNCHANGED <<store, insertId, trx, connection, pc, req, local, res, mutated,
                 second, stock0, dbPool, pools>>

\* await dbPool.query(CREATE TABLE IF NOT EXISTS order_items) resolves;
\* return dbPool
CreateOrderItemsTable(s) ==
  /\ svc[s].pc = "init.createOrderItems"
  /\ InitDatabaseReturns(s)
  /\ UNCHANGED <<store, insertId, trx, connection, pc, req, local, res, mutated,
                 second, stock0, dbPool, pools>>

\* connection = await pool.getConnection() on the pool initDatabase returned
PoolGetConnection(s) ==
  /\ svc[s].pc = "init.getConnection"
  /\ SvcGoto(s, "init.release")
  /\ UNCHANGED <<store, insertId, trx, connection, pc, req, local, res, mutated,
                 second, stock0, dbPool, pools>>

\* the handler's work on the connection is over: connection.release(), the
\* response is sent
PoolRelease(s) ==
  /\ svc[s].pc = "init.release"
  /\ SvcReturnWith(s, "initDatabase", 200, svc[s].id, <<>>)
  /\ UNCHANGED <<store, insertId, trx, connection, pc, req, local, res, mutated,
                 second, stock0, dbPool, pools>>

\* getDbCredentials(), a CREATE TABLE or getConnection rejects: the handler
\* answers 500; dbPool keeps what was assigned to it
InitDatabaseThrows(s) ==
  /\ svc[s].pc \in {"init.getDbCredentials", "init.createOrders",
                    "init.createOrderItems", "init.getConnection"}
  /\ SvcReturn(s, "initDatabase", 500)
  /\ UNCHANGED <<store, insertId, trx, connection, pc, req, local, res, mutated,
                 second, stock0, dbPool, pools>>

\* the handler's request is over; the process serves the next one
NextRequest(s) ==
  /\ svc[s].pc = "done"
  /\ svc' = [svc EXCEPT ![s] = NoSvc]
  /\ UNCHANGED <<store, insertId, trx, connection, pc, req, local, res, mutated,
                 second, stock0, dbPool, pools>>

\* the process has started: let dbPool = null, no pool created
InitPool ==
  /\ carts = [c \in CartIds |-> [user_id |-> CartOwner[c], status |-> "active"]]
  /\ cart_items = <<LineRow(1, 1, 1), LineRow(2, 1, 1)>>
  /\ products = [p \in ProductIds |->
                   [name |-> ProductName[p], price |-> CurrentPrice[p],
                    stock_quantity |-> MaxStock]]
  /\ stock0 = [p \in ProductIds |-> MaxStock]
  /\ orders = {}
  /\ order_items = {}
  /\ insertId = 0
  /\ trx = [p \in Procs |-> NoTrx]
  /\ connection = [p \in Procs |-> NoConn]
  /\ pc = [p \in Procs |-> "idle"]
  /\ req = [p \in Procs |-> [user_id |-> 0, cart_id |-> 0]]
  /\ local = [p \in Procs |-> NoLocal]
  /\ res = [p \in Procs |-> NoRes]
  /\ mutated = [p \in Procs |-> FALSE]
  /\ second = [p \in Procs |-> FALSE]
  /\ svc = [s \in SvcProcs |-> NoSvc]
  /\ dbPool = 0
  /\ pools = 0

NextPool ==
  \E s \in SvcProcs :
    \/ InitDatabase(s)
    \/ CreatePool(s)
    \/ CreateOrdersTable(s)
    \/ CreateOrderItemsTable(s)
    \/ PoolGetConnection(s)
    \/ PoolRelease(s)
    \/ InitDatabaseThrows(s)
    \/ NextRequest(s)

SpecPool == InitPool /\ [][NextPool]_vars

\* ------------------------------------------------------- claims
RECURSIVE SumField(_, _)
\* the sum of field f over a set of rows
SumField(S, f) ==
  IF S = {} THEN 0
  ELSE LET r == CHOOSE x \in S : TRUE IN r[f] + SumField(S \ {r}, f)

ItemsOf(orderId) == {i \in order_items : i.order_id = orderId}
LinesOf(c) ==
  {cart_items[k] : k \in {j \in 1..Len(cart_items) : cart_items[j].cart_id = c}}
\* the quantity cart c holds of product id, 0 when it has no line for it
LineQty(c, id) ==
  SumField({l \in LinesOf(c) : l.product_id = id}, "quantity")
NoWrites(t) ==
  /\ t.orders = {}
  /\ t.order_items = {}
  /\ DOMAIN t.stock = {}
  /\ t.carts = {}

\* C1: under concurrent checkouts of different carts that share a product, the
\* product's committed stock_quantity is never negative (no overselling).
C1_StockNeverOversold ==
  (\A o1, o2 \in orders : o1.cart_id = o2.cart_id => o1 = o2)
    => \A id \in ProductIds : products[id].stock_quantity >= 0

\* C2: of the checkouts of one cart at most one succeeds: the cart never has
\* two orders and no two handlers answer 201 for the same cart id.
C2_OneOrderPerCart ==
  /\ \A o1, o2 \in orders : o1.cart_id = o2.cart_id => o1 = o2
  /\ \A p, q \in Procs :
       (p # q /\ res[p].status = 201 /\ res[q].status = 201)
         => req[p].cart_id # req[q].cart_id

\* C3: checkout is all-or-nothing: the committed store holds, for each
\* checkout, either the order row with one order line per cart line, every
\* stock decrement and cart status ordered, or none of them.
C3_AllOrNothing ==
  /\ \A o \in orders :
       /\ carts[o.cart_id].status = "ordered"
       /\ {i.product_id : i \in ItemsOf(o.id)}
            = {l.product_id : l \in LinesOf(o.cart_id)}
       /\ Cardinality(ItemsOf(o.id)) = Cardinality(LinesOf(o.cart_id))
  /\ \A i \in order_items : \E o \in orders : o.id = i.order_id
  /\ \A c \in CartIds :
       carts[c].status = "ordered" => \E o \in orders : o.cart_id = c
  /\ \A id \in ProductIds :
       products[id].stock_quantity
         = stock0[id]
             - SumField({i \in order_items : i.product_id = id}, "quantity")

\* a store call failed after the order row and a stock decrement were written
\* and before the cart status was set; nothing of it is committed
C3_Witness ==
  \E p \in Procs :
    /\ pc[p] = "catch"
    /\ trx[p].orders # {}
    /\ DOMAIN trx[p].stock # {}
    /\ trx[p].carts = {}
    /\ orders = {}

\* C4: a POST /orders that fails a validation (400, 403 or 404) leaves the
\* store unchanged: it committed nothing and left nothing pending.
ValidationStatus == {400, 403, 404}
C4_ValidationFailureNoEffect ==
  \A p \in Procs :
    (res[p].status \in ValidationStatus \/ local[p].pending.status \in ValidationStatus)
      => ~mutated[p] /\ NoWrites(trx[p])

\* one request was refused for a foreign cart, another for a stock shortfall
C4_Witness ==
  \E p, q \in Procs :
    /\ pc[p] = "done" /\ res[p].status = 403
    /\ pc[q] = "done" /\ res[q].error = "Insufficient stock"
    /\ \A id \in ProductIds : products[id].stock_quantity = stock0[id]
    /\ orders = {}

\* C5: every line's stock is checked before the first mutation: a handler that
\* has begun to write read enough stock for every line, and one that met a
\* shortfall (in any position) answers Insufficient stock with nothing written.
MutationPcs == {"insertOrder", "insertItem", "updateStock", "updateCart", "commit"}
Shortfall(items) ==
  \E k \in 1..Len(items) : items[k].stock_quantity < items[k].quantity
C5_StockCheckedBeforeMutation ==
  \A p \in Procs :
    /\ pc[p] \in MutationPcs => ~Shortfall(local[p].cartItems)
    /\ (pc[p] = "rollback" /\ Shortfall(SelectRows(trx[p].view, req[p].cart_id))
          /\ SelectCartRows(trx[p].view, req[p].cart_id) # <<>>
          /\ req[p].user_id = trx[p].view.carts[req[p].cart_id].user_id)
         => local[p].pending.error = "Insufficient stock" /\ NoWrites(trx[p])
    /\ res[p].error = "Insufficient stock"
         => ~mutated[p] /\ NoWrites(trx[p])

\* cart 1 has two lines, the first with enough stock and the last without:
\* the request was refused naming the last product, every stock as it was
C5_Witness ==
  \E p \in Procs :
    /\ pc[p] = "done"
    /\ req[p].cart_id = 1
    /\ res[p].error = "Insufficient stock"
    /\ Len(cart_items) = 3
    /\ products[cart_items[1].product_id].stock_quantity >= cart_items[1].quantity
    /\ res[p].product = ProductName[cart_items[2].product_id]
    /\ res[p].available < res[p].requested
    /\ \A id \in ProductIds : products[id].stock_quantity = stock0[id]

\* C6: for every successful checkout the stored and the returned total, in
\* cents, equal the sum over the cart's lines of quantity * price_at_addition
\* and the sum of the subtotals of the order's lines.
RECURSIVE LinesTotal(_)
LinesTotal(S) ==
  IF S = {} THEN 0
  ELSE LET l == CHOOSE x \in S : TRUE
       IN l.quantity * l.price_at_addition + LinesTotal(S \ {l})
C6_OrderTotal ==
  /\ \A o \in orders :
       /\ o.total_amount = LinesTotal(LinesOf(o.cart_id))
       /\ o.total_amount = SumField(ItemsOf(o.id), "subtotal")
  /\ \A p \in Procs :
       res[p].status = 201
         => res[p].order.total_amount = LinesTotal(LinesOf(req[p].cart_id))

\* the example of the specification: 2 x 9.99 and 1 x 15.00 give 34.98,
\* although productA now costs 10.99
C6_Witness ==
  \E p \in Procs :
    /\ res[p].status = 201
    /\ Len(res[p].order.items) = 2
    /\ res[p].order.total_amount = 3498
    /\ \E o \in orders : o.id = res[p].order.id /\ o.total_amount = 3498
    /\ products[1].price # PriceAtAddition[1]

\* C7: the commit of a successful checkout lowers the committed stock of every
\* product by exactly the quantity of the cart's line for it (by 0 when the
\* cart has no such line), also with a concurrent checkout of the product.
C7_StockDecrement ==
  [][\A p \in Procs :
       (res[p].status = 0 /\ res'[p].status = 201)
         => \A id \in ProductIds :
              products'[id].stock_quantity
                = products[id].stock_quantity - LineQty(req[p].cart_id, id)]_vars

\* two checkouts of different carts that both hold productA have committed
C7_Witness ==
  /\ \A p \in Procs : pc[p] = "done" /\ res[p].status = 201
  /\ req[1].cart_id # req[2].cart_id
  /\ LineQty(1, 1) > 0 /\ LineQty(2, 1) > 0 /\ LineQty(1, 2) > 0
  /\ products[1].stock_quantity = stock0[1] - LineQty(1, 1) - LineQty(2, 1)
  /\ products[2].stock_quantity = stock0[2] - LineQty(1, 2)

\* C8: a POST /orders that begins after a checkout of the same cart id has
\* succeeded and ended does not succeed and adds no order, no order line and
\* no stock decrement.
C8_SecondCheckoutFails ==
  \A p \in Procs :
    second[p] => /\ res[p].status # 201
                 /\ ~mutated[p]
                 /\ NoWrites(trx[p])
                 /\ pc[p] \notin MutationPcs

\* cart 1 was checked out by its owner; a later request for it by another
\* user was refused, and there is still one order
C8_Witness ==
  \E p, q \in Procs :
    /\ second[p] /\ pc[p] = "done" /\ res[p].status = 404
    /\ res[q].status = 201 /\ req[q].cart_id = req[p].cart_id
    /\ req[q].user_id # req[p].user_id
    /\ Cardinality(orders) = 1

\* C9: the status of each failure kind: missing user_id or cart_id 400;
\* unknown user or unknown cart 404; an existing cart that is not active 400;
\* a cart of another user 403; an empty cart 400; insufficient stock 400 with
\* the product name, the available and the requested quantity.
C9_StatusOfFailure(p, sent) ==
  LET v == trx[p].view
      u == req[p].user_id
      c == req[p].cart_id
      items == SelectRows(v, c)
  IN IF u \notin Users THEN sent.status = 404
     ELSE IF c \notin DOMAIN v.carts THEN sent.status = 404
     ELSE IF v.carts[c].status # "active"
     THEN IF v.carts[c].user_id # u THEN sent.status \in {400, 403}
          ELSE sent.status = 400
     ELSE IF v.carts[c].user_id # u THEN sent.status = 403
     ELSE IF Len(items) = 0 THEN sent.status = 400
     ELSE /\ sent.status = 400
          /\ \E k \in 1..Len(items) :
               /\ items[k].stock_quantity < items[k].quantity
               /\ sent.product = items[k].product_name
               /\ sent.available = items[k].stock_quantity
               /\ sent.requested = items[k].quantity
C9_FailureStatus ==
  [][\A p \in Procs :
       /\ (pc[p] = "idle" /\ pc'[p] # "idle"
             /\ (req'[p].user_id = 0 \/ req'[p].cart_id = 0))
            => res'[p].status = 400
       /\ (pc[p] = "rollback" /\ res'[p].status # 0)
            => C9_StatusOfFailure(p, res'[p])]_vars

\* C10: a handler holds at most one pool connection, holds it from
\* getConnection until it returns, and has released it exactly once when it
\* returns, on every exit path; with no handler running none is checked out.
C10_ConnectionReleased ==
  \A p \in Procs :
    /\ connection[p].acquired <= 1
    /\ connection[p].released <= connection[p].acquired
    /\ pc[p] \in {"idle", "done"} => Held(p) = 0
    /\ pc[p] \notin {"idle", "done", "getConnection"} => Held(p) = 1

\* both handlers are over, one after a 201 and one after its rollback threw
\* inside the catch block; each had a connection and gave it back
C10_Witness ==
  /\ \A p \in Procs : pc[p] = "done" /\ connection[p] = [acquired |-> 1, released |-> 1]
  /\ \E p, q \in Procs : res[p].status = 201 /\ res[q].status = 0

\* C11: every POST /orders request ends with exactly one response, also when
\* store operations fail: a handler that has ended has sent a response (res
\* holds the one response of a request, status 0 when none was sent), and a
\* store failure is answered with 500.
C11_EveryRequestAnswered ==
  \A p \in Procs : pc[p] = "done" => res[p].status # 0

\* the lines of cart c as pairs <<product id, quantity>>
LineQuantities(c) == {<<l.product_id, l.quantity>> : l \in LinesOf(c)}

\* C12: once a cart's status is ordered, no step of a cart-service operation
\* (add, update quantity, remove) changes the set of its lines or their
\* quantities.
C12_OrderedCartImmutable ==
  [][\A c \in DOMAIN carts :
       carts[c].status = "ordered" => LineQuantities(c)' = LineQuantities(c)]_vars

\* C13: in every reachable state, also with concurrent POST /cart/create
\* requests for the same user, a user has at most one cart with status active.
C13_OneActiveCartPerUser ==
  \A u \in Users : Cardinality(ActiveCarts(u)) <= 1

\* C16: over the operations of the cart service and the order service the
\* status of a cart changes only from active to ordered and only in the step
\* that commits a successful POST /orders on that cart (so at most once, and
\* an ordered cart is never active again).
C16_CartStatusTransition ==
  [][\A c \in DOMAIN carts :
       carts'[c].status # carts[c].status
         => /\ carts[c].status = "active"
            /\ carts'[c].status = "ordered"
            /\ \E p \in Procs : /\ pc[p] = "commit"
                                /\ res'[p].status = 201
                                /\ req[p].cart_id = c]_vars

\* cart 1 was ordered by a successful checkout; afterwards its user asked for
\* a cart again and got a new one, and cart 1 is still ordered
C16_Witness ==
  /\ res[1].status = 201
  /\ carts[1].status = "ordered"
  /\ \E s \in SvcProcs : svc[s].op = "cart/create" /\ svc[s].status = 201
  /\ \E c \in DOMAIN carts : c # 1 /\ carts[c].user_id = carts[1].user_id

\* C18: at the step that commits a checkout the lines of the new order are in
\* one-to-one correspondence with the lines the cart has at that moment: same
\* product id, same quantity, unit price = price_at_addition, subtotal =
\* quantity x unit price; for every interleaving with add, update and remove.
C18_OrderLinesMatchCart ==
  [][\A p \in Procs :
       (pc[p] = "commit" /\ res'[p].status = 201)
         => LET its == {i \in order_items' : i.order_id = res'[p].order.id}
                lines == LinesOf(req[p].cart_id)
            IN /\ Cardinality(its) = Cardinality(lines)
               /\ \A l \in lines :
                    \E i \in its : /\ i.product_id = l.product_id
                                   /\ i.quantity = l.quantity
                                   /\ i.price = l.price_at_addition
                                   /\ i.subtotal = l.quantity * l.price_at_addition]_vars

\* C14: in every reachable state every product's stock_quantity is >= 0, for
\* any interleaving of product creation, catalog update and checkout.
C14_StockNonNegative ==
  \A id \in DOMAIN products : products[id].stock_quantity >= 0

\* C19: no step of any operation changes the user id, cart id or total of an
\* existing order or any field of an existing order line; a step of PUT
\* /orders/:id/status leaves every order but the addressed one as it is.
C19_OrdersImmutable ==
  [][/\ \A o \in orders :
          \E o2 \in orders' : /\ o2.id = o.id
                              /\ o2.user_id = o.user_id
                              /\ o2.cart_id = o.cart_id
                              /\ o2.total_amount = o.total_amount
     /\ \A i \in order_items : i \in order_items'
     /\ \A s \in SvcProcs :
          (svc[s].pc = "idle" /\ svc'[s].op = "orders/:id/status")
            => \A o \in orders : o.id # svc'[s].id => o \in orders']_vars

\* an order was placed, then its status was changed and productA was renamed
\* and repriced; the order line still has the name it was ordered under
C19_Witness ==
  /\ \E o \in orders : o.status = "cancelled"
  /\ products[1].name = "renamed"
  /\ \E i \in order_items :
       i.product_id = 1 /\ i.product_name = "productA" /\ i.price = 999
  /\ \E s \in SvcProcs : svc[s].op = "products/:id" /\ svc[s].status = 200

\* the order statuses of the specification
C20_Statuses == {"pending", "processing", "shipped", "delivered", "cancelled"}
\* C20: every order's status is always one of the five statuses; a PUT
\* /orders/:id/status with a status outside them is answered 400 and leaves
\* the orders as they are; with a valid status and an id that no order has it
\* is answered 404 (when the store call does not fail) and changes no order.
C20_OrderStatusValid ==
  /\ [](\A o \in orders : o.status \in C20_Statuses)
  /\ [][\A s \in SvcProcs :
          (svc[s].pc = "idle" /\ svc'[s].op = "orders/:id/status")
            => /\ svc'[s].body \notin C20_Statuses
                    => svc'[s].status = 400 /\ orders' = orders
               /\ (/\ svc'[s].body \in C20_Statuses
                   /\ \A o \in orders : o.id # svc'[s].id)
                    => svc'[s].status \in {404, 500} /\ orders' = orders]_vars

\* with an order placed, one request with status refunded got 400 and one for
\* order 2, which does not exist, got 404; the order is still pending
C20_Witness ==
  /\ \E o \in orders : o.id = 1 /\ o.status = "pending"
  /\ \E s, t \in SvcProcs :
       /\ svc[s].op = "orders/:id/status" /\ svc[s].body = "refunded"
       /\ svc[s].id = 1 /\ svc[s].status = 400
       /\ svc[t].op = "orders/:id/status" /\ svc[t].body = "processing"
       /\ svc[t].id = 2 /\ svc[t].status = 404

\* the product row whose lock handler p's next statement asks for is locked
\* by handler q in a conflicting mode: p waits for q
WaitsFor(p, q) ==
  /\ pc[p] \in {"insertItem", "updateStock"}
  /\ LET id == local[p].cartItems[local[p].i].product_id
     IN IF pc[p] = "insertItem"
        THEN XHeld(q, "products", id)
        ELSE XHeld(q, "products", id) \/ SHeld(q, "products", id)

\* the products that cart c and cart d both have a line for
SharedProducts(c, d) ==
  {l.product_id : l \in LinesOf(c)} \cap {l.product_id : l \in LinesOf(d)}

\* C15: two concurrent checkouts of two carts that share two or more products
\* lock the product rows in one fixed order, so no state is reachable in
\* which each of them waits for a product row the other holds.
C15_NoCheckoutDeadlock ==
  \A p, q \in Procs :
    (/\ req[p].cart_id # req[q].cart_id
     /\ Cardinality(SharedProducts(req[p].cart_id, req[q].cart_id)) >= 2)
      => ~(WaitsFor(p, q) /\ WaitsFor(q, p))

\* C17: every successful POST /orders has created exactly one order row, in
\* status pending, with the request's user id and cart id, and a failed one
\* has created none: the orders are as many as the requests answered 201
\* (every handler serves one request).
C17_OneOrderPerSuccess ==
  /\ Cardinality(orders) = Cardinality({p \in Procs : res[p].status = 201})
  /\ \A p \in Procs :
       res[p].status = 201
         => \E o \in orders : /\ o.id = res[p].order.id
                              /\ o.user_id = req[p].user_id
                              /\ o.cart_id = req[p].cart_id
                              /\ o.status = "pending"
  /\ \A o \in orders : \E p \in Procs : res[p].status = 201 /\ res[p].order.id = o.id
  /\ \A o1, o2 \in orders : o1.id = o2.id => o1 = o2

\* one checkout succeeded and one failed after its INSERT INTO orders (both
\* took an order id): there is one order
C17_Witness ==
  /\ \E p, q \in Procs : /\ res[p].status = 201
                         /\ pc[q] = "done" /\ res[q].status = 500
  /\ insertId = 2
  /\ Cardinality(orders) = 1

\* the first precondition, in the order unknown user, cart missing or not
\* active, cart of another user, empty cart, insufficient stock, that the
\* request of handler p violates in the state its transaction reads
C21_FirstViolated(p) ==
  LET v == trx[p].view
      u == req[p].user_id
      c == req[p].cart_id
  IN IF u \notin Users THEN "User not found"
     ELSE IF c \notin DOMAIN v.carts \/ v.carts[c].status # "active"
     THEN "Cart not found or not active"
     ELSE IF v.carts[c].user_id # u THEN "Cart does not belong to this user"
     ELSE IF Len(SelectRows(v, c)) = 0 THEN "Cart is empty"
     ELSE "Insufficient stock"

\* C21: a POST /orders that is refused reports the first precondition it
\* violates, in the order missing input, unknown user, cart missing or not
\* active, cart of another user, empty cart, insufficient stock; a request
\* with a missing user_id or cart_id is refused before a connection is
\* acquired or a transaction begun.
C21_FirstFailureReported ==
  [][\A p \in Procs :
       /\ (pc[p] = "idle" /\ pc'[p] # "idle"
             /\ (req'[p].user_id = 0 \/ req'[p].cart_id = 0))
            => /\ res'[p].error = "user_id and cart_id are required"
               /\ pc'[p] = "done"
               /\ connection'[p].acquired = 0
               /\ ~trx'[p].active
       /\ (pc[p] = "rollback" /\ res'[p].status # 0)
            => res'[p].error = C21_FirstViolated(p)]_vars

\* user 2 asked to check out cart 1, which belongs to user 1 and had been
\* ordered: of the two violations the earlier one was reported
C21_Witness ==
  \E p \in Procs :
    /\ pc[p] = "done"
    /\ req[p] = [user_id |-> 2, cart_id |-> 1]
    /\ carts[1].status = "ordered" /\ carts[1].user_id = 1
    /\ res[p].status = 404
    /\ res[p].error = "Cart not found or not active"

\* C22: in every reachable state every cart line has quantity > 0 and there
\* is at most one line per (cart, product); POST /cart/items and PUT
\* /cart/items/:item_id answer a quantity <= 0 with 400 and leave the cart
\* lines as they are; adding a product the cart already has raises the
\* quantity of its line and adds no line.
C22_CartLinesValid ==
  /\ [](/\ \A k \in 1..Len(cart_items) : cart_items[k].quantity > 0
        /\ \A j, k \in 1..Len(cart_items) :
             (/\ cart_items[j].cart_id = cart_items[k].cart_id
              /\ cart_items[j].product_id = cart_items[k].product_id) => j = k)
  /\ [][\A s \in SvcProcs :
          /\ (/\ svc[s].pc = "idle" /\ svc'[s].pc = "done"
              /\ svc'[s].op \in {"cart/items", "cart/items/:item_id"}
              /\ svc'[s].body <= 0)
               => svc'[s].status = 400 /\ cart_items' = cart_items
          /\ (svc[s].pc = "add.insert" /\ svc'[s].status = 201)
               => \A k \in 1..Len(cart_items) :
                    (/\ cart_items[k].cart_id = svc[s].cart_id
                     /\ cart_items[k].product_id = svc[s].product_id)
                      => /\ Len(cart_items') = Len(cart_items)
                         /\ cart_items'[k].quantity > cart_items[k].quantity]_vars

\* C23: in every committed state every order has at least one order line and
\* every order line belongs to an existing order.
C23_OrdersHaveLines ==
  /\ \A o \in orders : ItemsOf(o.id) # {}
  /\ \A i \in order_items : \E o \in orders : o.id = i.order_id

\* an order with two lines is committed, while the other checkout has
\* inserted its order and a line and has not committed them
C23_Witness ==
  /\ \E o \in orders : Cardinality(ItemsOf(o.id)) = 2
  /\ \E p \in Procs : /\ trx[p].orders # {}
                      /\ trx[p].order_items # {}
                      /\ \A o \in trx[p].orders : o \notin orders

\* C24: in every reachable state the user id of every order is the user id
\* of the cart the order was made from.
C24_OrderUserOwnsCart ==
  \A o \in orders :
    o.cart_id \in DOMAIN carts /\ carts[o.cart_id].user_id = o.user_id

\* user 2 has an order of their own cart 2, and their request to check out
\* cart 1 of user 1 was refused with 403 and left no order
C24_Witness ==
  /\ \E o \in orders : o.cart_id = 2 /\ o.user_id = 2
  /\ \E p \in Procs : /\ pc[p] = "done"
                      /\ req[p] = [user_id |-> 2, cart_id |-> 1]
                      /\ res[p].status = 403
  /\ \A o \in orders : o.cart_id # 1

\* C25: within one service process initDatabase creates the connection pool
\* at most once, for any interleaving of concurrent first requests, and all
\* requests work on that one pool.
C25_OnePool ==
  /\ pools <= 1
  /\ \A s, t \in SvcProcs :
       (/\ svc[s].pc \in {"init.getConnection", "init.release"}
        /\ svc[t].pc \in {"init.getConnection", "init.release"})
         => svc[s].id = svc[t].id

====
